---- MODULE Spec2Model ----
(***************************************************************************)
(* Model of the link validation engine of src/server.js: getPageContent,  *)
(* getStatusColor, processLink and the POST /link-details handler.         *)
(*                                                                         *)
(* Strings that the code inspects character by character (the class        *)
(* attribute, the text content) are sequences of UTF-16 code units.        *)
(* Strings that the code only copies and compares (href, aria-label,       *)
(* target, colours) are TLA+ strings.  A JavaScript value that is either   *)
(* undefined or a string is a sequence: <<>> for undefined, <<s>> for the  *)
(* string s, so that no string is taken for undefined.                     *)
(***************************************************************************)
EXTENDS Integers, Sequences, FiniteSets, TLC

\* Largest number of <a> elements on a fetched page.
MaxAnchors == 2

\* The JavaScript value undefined, and the string s as a JavaScript value.
Undefined == <<>>
Defined(s) == <<s>>

----------------------------------------------------------------------------
(* Character sequences                                                     *)

\* The code units of the characters the catalogue is written with.
CodeUnit ==
    " " :> 32 @@ "G" :> 71 @@ "M" :> 77 @@ "T" :> 84 @@
    "a" :> 97 @@ "b" :> 98 @@ "c" :> 99 @@ "e" :> 101 @@ "h" :> 104 @@
    "i" :> 105 @@ "k" :> 107 @@ "l" :> 108 @@ "m" :> 109 @@ "n" :> 110 @@
    "o" :> 111 @@ "p" :> 112 @@ "r" :> 114 @@ "t" :> 116 @@ "u" :> 117 @@
    "x" :> 120 @@ "y" :> 121

\* The code units of a string given character by character.
Str(chars) == [i \in 1..Len(chars) |-> CodeUnit[chars[i]]]

\* What String.prototype.trim strips: the WhiteSpace and LineTerminator code
\* points of ECMAScript (TAB, LF, VT, FF, CR, SP, NBSP, U+1680,
\* U+2000..U+200A, LS, PS, U+202F, U+205F, U+3000, ZWNBSP).
WhiteSpace ==
    {9, 10, 11, 12, 13, 32, 160, 5760} \cup (8192..8202)
    \cup {8232, 8233, 8239, 8287, 12288, 65279}

\* String.prototype.includes: sub occurs in s as a contiguous substring.
Includes(s, sub) ==
    \E i \in 0..(Len(s) - Len(sub)) : SubSeq(s, i + 1, i + Len(sub)) = sub

\* String.prototype.trim on the text content: strip leading and trailing
\* white space.
RECURSIVE TrimLeft(_)
TrimLeft(s) ==
    IF s # <<>> /\ Head(s) \in WhiteSpace THEN TrimLeft(Tail(s)) ELSE s

RECURSIVE TrimRight(_)
TrimRight(s) ==
    IF s # <<>> /\ s[Len(s)] \in WhiteSpace
    THEN TrimRight(SubSeq(s, 1, Len(s) - 1))
    ELSE s

Trim(s) == TrimRight(TrimLeft(s))

----------------------------------------------------------------------------
(* Anchors of the page document                                            *)

\* An <a> element: attrs is the set of attributes the element carries, the
\* other fields are their values (meaningful only when the name is in attrs)
\* and text is the element's text content.
Anchor(attrs, href, cls, aria, target, text) ==
    [attrs |-> attrs, href |-> href, class |-> cls, ariaLabel |-> aria,
     target |-> target, text |-> text]

AnchorCatalogue ==
    { \* <a class="cta" href="https://x/ok">Go</a>
      Anchor({"href", "class"}, "https://x/ok", Str(<<"c","t","a">>), "", "",
             Str(<<"G","o">>)),
      \* <a class="button primary" href="https://x/moved" target="_blank">&nbsp;Go(LF)</a>
      Anchor({"href", "class", "target"}, "https://x/moved",
             Str(<<"b","u","t","t","o","n"," ","p","r","i","m","a","r","y">>),
             "", "_blank", <<160>> \o Str(<<"G","o">>) \o <<10>>),
      \* <a class="hyperlink" href="https://x/missing" aria-label="More">More</a>
      Anchor({"href", "class", "aria-label"}, "https://x/missing",
             Str(<<"h","y","p","e","r","l","i","n","k">>), "More", "",
             Str(<<"M","o","r","e">>)),
      \* <a>Top</a>
      Anchor({}, "", <<>>, "", "", Str(<<"T","o","p">>)),
      \* <a class="link cta" href="">x</a>
      Anchor({"href", "class"}, "", Str(<<"l","i","n","k"," ","c","t","a">>),
             "", "", Str(<<"x">>)) }

\* $(link).attr(name) for the string-valued attributes.
AttrHref(link) ==
    IF "href" \in link.attrs THEN Defined(link.href) ELSE Undefined
AttrAriaLabel(link) ==
    IF "aria-label" \in link.attrs THEN Defined(link.ariaLabel) ELSE Undefined
AttrTarget(link) ==
    IF "target" \in link.attrs THEN Defined(link.target) ELSE Undefined

\* JavaScript truthiness of an attribute value: neither undefined nor "".
Truthy(v) == v # Undefined /\ v # Defined("")

\* v || '', a string
OrEmpty(v) == IF Truthy(v) THEN v[1] ELSE ""

\* The URL axios.get(href) is called with.
RequestUrl(href) == IF href = Undefined THEN "" ELSE href[1]

\* $(link).attr('class') || ''
ClassNames(link) == IF "class" \in link.attrs THEN link.class ELSE <<>>

----------------------------------------------------------------------------
(* getStatusColor                                                          *)

getStatusColorStrict(statusCode) ==
    IF statusCode > 500 THEN "red"
    ELSE IF statusCode > 400 THEN "orange"
    ELSE IF statusCode > 300 THEN "yellow"
    ELSE "green"

getStatusColor(statusCode) ==
    IF statusCode >= 500 THEN "red"
    ELSE IF statusCode >= 400 THEN "orange"
    ELSE IF statusCode >= 300 THEN "yellow"
    ELSE "green"

----------------------------------------------------------------------------
(* processLink                                                             *)

\* The role classification of lines 44-52.
LinkType(classNames) ==
    IF Includes(classNames, Str(<<"c","t","a">>)) THEN "cta"
    ELSE IF Includes(classNames, Str(<<"b","u","t","t","o","n">>)) THEN "button"
    ELSE IF Includes(classNames, Str(<<"l","i","n","k">>)) THEN "link"
    ELSE "unknown"

\* linkDetails as initialised on lines 54-65.
InitialDetails(link) ==
    [linkType |-> LinkType(ClassNames(link)),
     linkText |-> Trim(link.text),
     ariaLabel |-> OrEmpty(AttrAriaLabel(link)),
     url |-> AttrHref(link),
     redirectedUrl |-> "",
     statusCode |-> 200,
     target |-> OrEmpty(AttrTarget(link)),
     statusColor |-> "green",
     originalUrlColor |-> "",
     redirectedUrlColor |-> ""]

\* The outcomes of axios.get(href).  "returned": the promise fulfils with a
\* response (status accepted by validateStatus, i.e. 2xx).  "threwResponse":
\* it rejects with an error that carries a response (any other status).
\* "threwNoResponse": it rejects with an error that carries none.
\* responseUrl is the URL of the last request of the redirect chain.
NoStatus == 0 - 1

Returned(status, responseUrl) ==
    [kind |-> "returned", status |-> status, responseUrl |-> responseUrl]
ThrewResponse(status, responseUrl) ==
    [kind |-> "threwResponse", status |-> status, responseUrl |-> responseUrl]
ThrewNoResponse ==
    [kind |-> "threwNoResponse", status |-> NoStatus, responseUrl |-> ""]

\* Lines 70-78: the try block after the awaited request returned.
AfterReturnAlwaysFlagged(d, href, response) ==
    [d EXCEPT !.statusCode = response.status,
              !.redirectedUrl = response.responseUrl,
              !.statusColor = getStatusColor(response.status),
              !.originalUrlColor = "blue",
              !.redirectedUrlColor = "purple"]

AfterReturn(d, href, response) ==
    LET d1 == [d EXCEPT !.statusCode = response.status,
                        !.redirectedUrl = response.responseUrl,
                        !.statusColor = getStatusColor(response.status)]
    IN IF href # Defined(d1.redirectedUrl)
       THEN [d1 EXCEPT !.originalUrlColor = "blue",
                       !.redirectedUrlColor = "purple"]
       ELSE d1

\* Lines 79-84: the catch block.
AfterThrowUnguarded(d, error) ==
    [d EXCEPT !.statusCode = error.status,
              !.statusColor = getStatusColor(error.status)]

AfterThrow(d, error) ==
    IF error.kind = "threwResponse"
    THEN [d EXCEPT !.statusCode = error.status,
                   !.statusColor = getStatusColor(error.status)]
    ELSE d

\* The record processLink resolves with once its request has settled with
\* outcome out (lines 67-87, href truthy).
Settled(link, out) ==
    IF out.kind = "returned"
    THEN AfterReturn(InitialDetails(link), AttrHref(link), out)
    ELSE AfterThrow(InitialDetails(link), out)

----------------------------------------------------------------------------
(* The environment: pages and probe outcomes                               *)

RECURSIVE SeqsUpTo(_, _)
SeqsUpTo(S, n) ==
    IF n = 0 THEN {<<>>}
    ELSE LET shorter == SeqsUpTo(S, n - 1)
         IN shorter \cup {Append(q, x) : q \in {r \in shorter : Len(r) = n - 1},
                                         x \in S}

\* A fetched page: its <a> elements in document order.  The last mainLen of
\* them lie inside main.microsoft-template-layout-container, the ones before
\* belong to the surrounding header; hasMain tells whether the page has
\* that container at all.
Pages ==
    { p \in [els : SeqsUpTo(AnchorCatalogue, MaxAnchors), hasMain : BOOLEAN,
             mainLen : 0..MaxAnchors] :
        /\ p.mainLen <= Len(p.els)
        /\ (~p.hasMain => p.mainLen = 0) }

\* Statuses axios resolves with (validateStatus: 2xx) and rejects with.
OkStatuses == {200, 204}
ErrorStatuses == {300, 404, 500}
RedirectTarget == "https://x/new"

\* The outcomes axios.get(href) can have.
Outcomes(url) ==
    {Returned(s, u) : s \in OkStatuses, u \in {url, RedirectTarget}}
    \cup {ThrewResponse(s, url) : s \in ErrorStatuses}
    \cup {ThrewNoResponse}

----------------------------------------------------------------------------
(* POST /link-details                                                      *)

VARIABLES
    pc,            \* where the handler is: "fetching", "awaiting", "done"
    doc,           \* $ of line 106: "unset", "null" or "tree"
    linkElements,  \* $('a').toArray()
    linkPromises,  \* one promise per element of linkElements
    requests,      \* the GETs issued by processLink: <<index, url>>, in order
    completed,     \* the indices of linkPromises in the order they resolved
    response       \* what was sent on res, and how many times

vars == <<pc, doc, linkElements, linkPromises, requests, completed, response>>

Indices == 1..Len(linkElements)

InFlight == [kind |-> "inFlight", status |-> NoStatus, responseUrl |-> ""]
NoProbe == [kind |-> "noProbe", status |-> NoStatus, responseUrl |-> ""]

\* A promise returned by processLink: out is what became of its request and
\* value is linkDetails.
Pending(link) ==
    [state |-> "pending", out |-> InFlight, value |-> InitialDetails(link)]
Fulfilled(out, value) == [state |-> "fulfilled", out |-> out, value |-> value]

\* getPageContent, lines 15-22, on a page that was fetched: the <a>
\* elements of the document tree handed back.
PageAnchors(page, includeUhf) ==
    IF includeUhf THEN page.els
    ELSE IF page.hasMain
         THEN SubSeq(page.els, Len(page.els) - page.mainLen + 1, Len(page.els))
         ELSE <<>>

\* processLink up to its first suspension: without a truthy href it returns
\* the initial details at once, otherwise it suspends on axios.get(href).
DispatchAlways(link) == Pending(link)

Dispatch(link) ==
    IF Truthy(AttrHref(link)) THEN Pending(link)
    ELSE Fulfilled(NoProbe, InitialDetails(link))

\* The GETs issued, and the promises already resolved, when the map over
\* els[i..] has run.
RECURSIVE RequestsOf(_, _)
RequestsOf(els, i) ==
    IF i > Len(els) THEN <<>>
    ELSE (IF Dispatch(els[i]).state = "pending"
          THEN << <<i, RequestUrl(AttrHref(els[i]))>> >>
          ELSE <<>>) \o RequestsOf(els, i + 1)

RECURSIVE ImmediateOf(_, _)
ImmediateOf(els, i) ==
    IF i > Len(els) THEN <<>>
    ELSE (IF Dispatch(els[i]).state = "pending" THEN <<>> ELSE <<i>>)
         \o ImmediateOf(els, i + 1)

NothingSent == [sent |-> 0, status |-> 0, kind |-> "none", links |-> <<>>]

Init ==
    /\ pc = "fetching"
    /\ doc = "unset"
    /\ linkElements = <<>>
    /\ linkPromises = <<>>
    /\ requests = <<>>
    /\ completed = <<>>
    /\ response = NothingSent

\* res.status(500).send('Failed to fetch page content.')
SendFailure ==
    [sent |-> response.sent + 1, status |-> 500, kind |-> "text", links |-> <<>>]

\* res.json({ links: results })
SendLinks(results) ==
    [sent |-> response.sent + 1, status |-> 200, kind |-> "json",
     links |-> results]

\* Lines 105-107 when axios.get(url) throws: getPageContent yields null and
\* the handler answers 500 and returns.
PageFetchFailsFallsThrough ==
    /\ pc = "fetching"
    /\ doc' = "null"
    /\ response' = SendFailure
    /\ pc' = "awaiting"
    /\ UNCHANGED <<linkElements, linkPromises, requests, completed>>

PageFetchFails ==
    /\ pc = "fetching"
    /\ doc' = "null"
    /\ response' = SendFailure
    /\ pc' = "done"
    /\ UNCHANGED <<linkElements, linkPromises, requests, completed>>

\* Lines 105-111 when the page is fetched: the anchors are extracted and
\* processLink is started on every one of them before Promise.all is awaited.
PageFetched ==
    /\ pc = "fetching"
    /\ doc' = "tree"
    /\ \E page \in Pages, includeUhf \in BOOLEAN :
          LET els == PageAnchors(page, includeUhf)
          IN /\ linkElements' = els
             /\ linkPromises' = [i \in 1..Len(els) |-> Dispatch(els[i])]
             /\ requests' = RequestsOf(els, 1)
             /\ completed' = ImmediateOf(els, 1)
    /\ pc' = "awaiting"
    /\ UNCHANGED response

\* The request of anchor i settles with outcome out and processLink runs
\* to its return (lines 70-87).
ProbeSettlesRetrying(i, out) ==
    /\ pc = "awaiting"
    /\ linkPromises[i].state = "pending"
    /\ IF out.kind = "threwNoResponse"
       THEN /\ requests' = Append(requests,
                                    <<i, RequestUrl(AttrHref(linkElements[i]))>>)
            /\ UNCHANGED <<linkPromises, completed>>
       ELSE /\ linkPromises' =
                  [linkPromises EXCEPT
                     ![i] = Fulfilled(out, Settled(linkElements[i], out))]
            /\ completed' = Append(completed, i)
            /\ UNCHANGED requests
    /\ UNCHANGED <<pc, doc, linkElements, response>>

ProbeSettles(i, out) ==
    /\ pc = "awaiting"
    /\ linkPromises[i].state = "pending"
    /\ linkPromises' =
          [linkPromises EXCEPT ![i] = Fulfilled(out, Settled(linkElements[i], out))]
    /\ completed' = Append(completed, i)
    /\ UNCHANGED <<pc, doc, linkElements, requests, response>>

ProbeReturns ==
    \E i \in Indices :
       \E out \in {o \in Outcomes(RequestUrl(AttrHref(linkElements[i]))) :
                      o.kind = "returned"} :
          ProbeSettles(i, out)

ProbeThrowsWithResponse ==
    \E i \in Indices :
       \E out \in {o \in Outcomes(RequestUrl(AttrHref(linkElements[i]))) :
                      o.kind = "threwResponse"} :
          ProbeSettles(i, out)

ProbeThrowsWithoutResponse ==
    \E i \in Indices : ProbeSettles(i, ThrewNoResponse)

\* Promise.all(linkPromises): fulfilled once every promise is, with the
\* values by position.
AllFulfilled == \A i \in Indices : linkPromises[i].state = "fulfilled"

ResultsByCompletion ==
    [k \in 1..Len(completed) |-> linkPromises[completed[k]].value]

Results == [i \in Indices |-> linkPromises[i].value]

JoinSettledOnAny ==
    Indices = {} \/ \E i \in Indices : linkPromises[i].state = "fulfilled"

JoinSettled == AllFulfilled

\* Lines 111-112: the join resumes the handler, which sends the report.
Respond ==
    /\ pc = "awaiting"
    /\ JoinSettled
    /\ pc' = "done"
    /\ response' = SendLinks(Results)
    /\ UNCHANGED <<doc, linkElements, linkPromises, requests, completed>>

Next ==
    \/ PageFetchFails
    \/ PageFetched
    \/ ProbeReturns
    \/ ProbeThrowsWithResponse
    \/ ProbeThrowsWithoutResponse
    \/ Respond

Spec == Init /\ [][Next]_vars

\* The event loop runs a continuation whose promise has resolved; the
\* network owes no answer to a request.
LiveSpec == Spec /\ WF_vars(Respond)

----------------------------------------------------------------------------
(* Properties of the report                                                *)

ReportSent == pc = "done" /\ doc = "tree"

\* The record the code builds from an anchor and what became of its probe.
RecordOf(link, out) ==
    IF out.kind = "noProbe" THEN InitialDetails(link) ELSE Settled(link, out)

Records == {response.links[i] : i \in 1..Len(response.links)}

HasDefaultStatus(r) ==
    /\ r.statusCode = 200
    /\ r.statusColor = "green"
    /\ r.redirectedUrl = ""
    /\ r.originalUrlColor = ""
    /\ r.redirectedUrlColor = ""

\* C1: whatever the order in which the probes complete, the links array of
\* the report has one record per anchor and its i-th record is the record
\* built from the i-th anchor of the document.
C1_OrderPreserved ==
    ReportSent =>
       /\ response.kind = "json"
       /\ Len(response.links) = Len(linkElements)
       /\ \A i \in Indices :
             response.links[i] = RecordOf(linkElements[i], linkPromises[i].out)

\* A report was sent for two anchors whose records differ, the later of
\* which resolved first.
C1_Witness ==
    /\ ReportSent
    /\ Len(linkElements) >= 2
    /\ \E k, l \in 1..Len(completed) : k < l /\ completed[k] > completed[l]
    /\ response.links[1] # response.links[2]

NoResponseIndices ==
    {i \in Indices : linkPromises[i].out.kind = "threwNoResponse"}

\* C2: when exactly one probe of a batch fails without a response, the
\* request still succeeds with one record per anchor; the failed anchor's
\* record carries the default status 200, green, an empty redirectedUrl and
\* no divergence colours, and every other record is the one its own anchor
\* and its own probe outcome give.
C2_PartialFailureIsolated ==
    (ReportSent /\ Cardinality(NoResponseIndices) = 1) =>
       /\ response.sent = 1
       /\ response.status = 200
       /\ response.kind = "json"
       /\ Len(response.links) = Len(linkElements)
       /\ \A i \in Indices :
             IF i \in NoResponseIndices
             THEN /\ HasDefaultStatus(response.links[i])
                  /\ response.links[i] = InitialDetails(linkElements[i])
             ELSE response.links[i] =
                     RecordOf(linkElements[i], linkPromises[i].out)

\* A report of two records, one of a probe that failed without a response
\* and one of a probe that was answered.
C2_Witness ==
    /\ ReportSent
    /\ Cardinality(NoResponseIndices) = 1
    /\ \E j \in Indices :
          linkPromises[j].out.kind \in {"returned", "threwResponse"}

Flagged(r) == r.originalUrlColor # ""

\* C3 as stated: in every record of the report the two divergence colours
\* are set together, and they are set exactly when url differs from
\* redirectedUrl.
C3_AsStated ==
    \A r \in Records :
       /\ (r.originalUrlColor # "") <=> (r.redirectedUrlColor # "")
       /\ Flagged(r) <=> (r.url # Defined(r.redirectedUrl))

\* C3 as amended: in every record of the report the two divergence colours
\* are set together, and they are set exactly when redirectedUrl is
\* non-empty and differs from url.
C3_DivergenceFlags ==
    \A r \in Records :
       /\ (r.originalUrlColor # "") <=> (r.redirectedUrlColor # "")
       /\ Flagged(r) <=> (r.redirectedUrl # "" /\ r.url # Defined(r.redirectedUrl))

\* A report with a flagged record (a redirect) and an unflagged record
\* whose url nevertheless differs from its empty redirectedUrl.
C3_Witness ==
    /\ ReportSent
    /\ \E r \in Records : Flagged(r) /\ r.redirectedUrlColor = "purple"
    /\ \E r \in Records : ~Flagged(r) /\ r.url # Defined(r.redirectedUrl)

\* C4: whenever a probe received a response, be it returned or carried by
\* a thrown error, the record's statusCode and redirectedUrl are those of
\* the response.
C4_ResponsePopulatesRecord ==
    \A i \in Indices :
       (/\ linkPromises[i].state = "fulfilled"
        /\ linkPromises[i].out.kind \in {"returned", "threwResponse"}) =>
          /\ linkPromises[i].value.statusCode = linkPromises[i].out.status
          /\ linkPromises[i].value.redirectedUrl =
                linkPromises[i].out.responseUrl

NoHrefIndices == {i \in Indices : ~Truthy(AttrHref(linkElements[i]))}

RequestsFor(i) == {k \in 1..Len(requests) : requests[k][1] = i}

\* C5: an anchor whose href is absent or empty has, from dispatch on and in
\* the report, a record with statusCode 200, statusColor green, an empty
\* redirectedUrl and no divergence colours, and no request is ever issued
\* for it.
C5_NoHrefDefault ==
    \A i \in NoHrefIndices :
       /\ RequestsFor(i) = {}
       /\ linkPromises[i].state = "fulfilled"
       /\ HasDefaultStatus(linkPromises[i].value)
       /\ ReportSent => HasDefaultStatus(response.links[i])

\* A report was sent for a page with an anchor without href, an anchor with
\* an empty href and nothing else.
C5_Witness ==
    /\ ReportSent
    /\ \E i, j \in NoHrefIndices :
          /\ AttrHref(linkElements[i]) = Undefined
          /\ AttrHref(linkElements[j]) = Defined("")
    /\ requests = <<>>

\* The severity table of the specification.
Severity(statusCode) ==
    CASE statusCode >= 500 -> "red"
      [] statusCode >= 400 /\ statusCode < 500 -> "orange"
      [] statusCode >= 300 /\ statusCode < 400 -> "yellow"
      [] OTHER -> "green"

\* C6: in every record of the report, whatever path produced it,
\* statusColor is the severity tier of statusCode: red from 500, orange
\* from 400, yellow from 300, green otherwise.
C6_SeverityOfStatus ==
    \A r \in Records : r.statusColor = Severity(r.statusCode)

\* A report holding a record at a tier boundary (500 or 300) next to a
\* record of a probe that had no response.
C6_Witness ==
    /\ ReportSent
    /\ \E r \in Records : r.statusCode \in {300, 500}
    /\ NoResponseIndices # {}

\* t is one of the space-separated tokens of s.
HasToken(s, t) ==
    \E i \in 1..Len(s) :
       LET j == i + Len(t) - 1
       IN /\ j <= Len(s)
          /\ SubSeq(s, i, j) = t
          /\ (i = 1 \/ s[i - 1] = CodeUnit[" "])
          /\ (j = Len(s) \/ s[j + 1] = CodeUnit[" "])

TokenLinkType(classNames) ==
    IF HasToken(classNames, Str(<<"c","t","a">>)) THEN "cta"
    ELSE IF HasToken(classNames, Str(<<"b","u","t","t","o","n">>)) THEN "button"
    ELSE IF HasToken(classNames, Str(<<"l","i","n","k">>)) THEN "link"
    ELSE "unknown"

\* C7: linkType is decided by which of the tokens cta, button, link the
\* space-separated class string has, the first in that order winning, and
\* is unknown when it has none of them as a token.
C7_RoleByToken ==
    \A i \in Indices :
       linkPromises[i].value.linkType =
          TokenLinkType(ClassNames(linkElements[i]))

\* C8: when the page cannot be fetched the request is answered exactly
\* once, with status 500 and no links array, and no probe is ever issued.
C8_WholeBatchFailure ==
    doc = "null" =>
       /\ response.sent = 1
       /\ response.status = 500
       /\ response.kind = "text"
       /\ response.links = <<>>
       /\ requests = <<>>
       /\ linkPromises = <<>>
       /\ pc = "done"

\* The page fetch failed and the handler has returned.
C8_Witness == doc = "null" /\ pc = "done" /\ response.status = 500

Dispatched == doc = "tree"

\* C9: once the batch is dispatched, and however the probes end, exactly
\* one GET has been issued for every anchor with a non-empty href, to that
\* href, and the number of GETs is the number of such anchors.
C9_OneRequestPerHref ==
    Dispatched =>
       /\ \A i \in Indices \ NoHrefIndices :
             /\ Cardinality(RequestsFor(i)) = 1
             /\ \A k \in RequestsFor(i) :
                   requests[k][2] = RequestUrl(AttrHref(linkElements[i]))
       /\ Len(requests) = Cardinality(Indices \ NoHrefIndices)

\* A report was sent for two probed anchors, one of which had no response
\* and one an error response.
C9_Witness ==
    /\ ReportSent
    /\ Len(requests) = 2
    /\ NoResponseIndices # {}
    /\ \E i \in Indices : linkPromises[i].out.kind = "threwResponse"

SomePending == \E i \in Indices : linkPromises[i].state = "pending"

JoinSafe ==
    /\ pc = "awaiting" =>
          \A i \in Indices \ NoHrefIndices : RequestsFor(i) # {}
    /\ SomePending => response.sent = 0

\* C10: every probe is dispatched before the join is awaited; no response
\* is sent while a probe is pending, so a probe that never settles leaves
\* the request unanswered; and once every probe has settled the response
\* is eventually sent.
C10_BatchJoin ==
    /\ []JoinSafe
    /\ (pc = "awaiting" /\ AllFulfilled) ~> (response.sent = 1)

\* The join is waiting on one probe while another has already settled.
C10_Witness ==
    /\ pc = "awaiting"
    /\ SomePending
    /\ \E i \in Indices : linkPromises[i].out.kind = "returned"
    /\ response.sent = 0

====
